---- MODULE Spec2Model ----
(***************************************************************************)
(* The user-management REST service of src/src/index.ts: the three guards  *)
(* (authenticate, userIsAdmin, userIsSelfOrAdmin), the query helper and    *)
(* the six route handlers, over a table of accounts.                       *)
(*                                                                         *)
(* A request advances from one await of the code to the next: every action *)
(* is the code that runs between two awaits on a query, and the statement  *)
(* of a query executes on the table when its result arrives.               *)
(***************************************************************************)
EXTENDS Integers, Sequences, FiniteSets, TLC

\* Requests that can be in flight together.
MaxReq == 2
\* Ids the auto-increment column can hand out.
MaxId == 3

\* An absent header, an absent body attribute, SQL NULL.
NULL == "NULL"

Reqs == 1..MaxReq
Ids == 1..MaxId

(***************************************************************************)
(* Tokens.  jwt.verify(token, "oranges") throws for a token that is        *)
(* absent, malformed or signed with another secret, and otherwise returns  *)
(* the payload: a string, or a freshly allocated object.                   *)
(***************************************************************************)
ValidTokens == {"tok.12345", "tok.12345.hs384", "tok.67890", "tok.object"}
Tokens == ValidTokens \cup {"tok.wrongsig", "not-a-jwt"}

VerifyThrows(token) == token \notin ValidTokens

jwtVerify(token) ==
    CASE token = "tok.12345"       -> [kind |-> "string", val |-> "12345"]
      [] token = "tok.12345.hs384" -> [kind |-> "string", val |-> "12345"]
      [] token = "tok.67890"       -> [kind |-> "string", val |-> "67890"]
      [] token = "tok.object"      -> [kind |-> "object", val |-> "sub"]

\* Variant: any two tokens that verify are taken to match.
StrictEqualAnyValid(x, y) == TRUE

\* requestToken === userToken: strings by value, objects by reference, and
\* the two calls of jwt.verify never return the same object.
StrictEqual(x, y) == x.kind = "string" /\ y.kind = "string" /\ x.val = y.val

(***************************************************************************)
(* The users table.  A row carries the id of the auto-increment column and *)
(* the columns the code reads and writes.                                  *)
(***************************************************************************)
Roles == {"USER", "ADMIN"}
Emails == {"admin@x.com", "a@x.com", "new@x.com"}

InitUsers ==
    { [id |-> 1, name |-> "Admin", email |-> "admin@x.com",
       password |-> "$2b$10$secret", role |-> "ADMIN",
       accessToken |-> "tok.12345"],
      [id |-> 2, name |-> "John Doe", email |-> "a@x.com",
       password |-> "$2b$10$secret", role |-> "USER",
       accessToken |-> "tok.67890"] }

\* A result set: the rows of S in the order of the primary key.
RECURSIVE RowsInOrder(_)
RowsInOrder(S) ==
    IF S = {} THEN <<>>
    ELSE LET first == CHOOSE u \in S : \A v \in S : u.id <= v.id
         IN <<first>> \o RowsInOrder(S \ {first})

\* "SELECT * FROM users WHERE email = ?"
SelectByEmail(table, email) == RowsInOrder({u \in table : u.email = email})

\* "SELECT * FROM users WHERE id = ?"
SelectById(table, id) == RowsInOrder({u \in table : u.id = id})

\* "SELECT * FROM users"
SelectAll(table) == RowsInOrder(table)

(***************************************************************************)
(* Request bodies and their deserialization.  The deserializer rejects a   *)
(* document without a data member and otherwise returns the attributes:    *)
(* an attribute the document does not carry is absent (NULL here).         *)
(***************************************************************************)
Bodies == {"malformed", "createUser", "createAdmin", "roleAdmin"}

DeserializeRejects(body) == body \in {"malformed", "none"}

NoAttributes ==
    [name |-> NULL, email |-> NULL, password |-> NULL, role |-> NULL,
     accessToken |-> NULL]

deserialize(body) ==
    CASE body = "createUser" ->
           [name |-> "Test User", email |-> "new@x.com",
            password |-> "password", role |-> "USER", accessToken |-> NULL]
      [] body = "createAdmin" ->
           [name |-> "Test User", email |-> "new@x.com",
            password |-> "password", role |-> "ADMIN",
            accessToken |-> "tok.object"]
      [] body = "roleAdmin" -> [NoAttributes EXCEPT !.role = "ADMIN"]

\* bcrypt.hash(password, 10)
bcryptHash(password) == "$2b$10$" \o password

\* Variant: the role of a new row is the default of the column, not the one
\* submitted.
InsertRowDefaultRole(table, id, fields) ==
    table \cup { [id |-> id, name |-> fields.name, email |-> fields.email,
                  password |-> fields.password, role |-> "USER",
                  accessToken |-> fields.accessToken] }

\* "INSERT INTO users SET ?"
InsertRow(table, id, fields) ==
    table \cup { [id |-> id, name |-> fields.name, email |-> fields.email,
                  password |-> fields.password, role |-> fields.role,
                  accessToken |-> fields.accessToken] }

\* "UPDATE users SET ? WHERE id = ?": the columns the object carries.
UpdateRow(table, id, fields) ==
    LET set(old, new) == IF new # NULL THEN new ELSE old
    IN { IF u.id # id THEN u
         ELSE [id |-> u.id,
               name |-> set(u.name, fields.name),
               email |-> set(u.email, fields.email),
               password |-> set(u.password, fields.password),
               role |-> set(u.role, fields.role),
               accessToken |-> set(u.accessToken, fields.accessToken)]
         : u \in table }

\* "UPDATE users SET role = ? WHERE id = ?"
UpdateRole(table, id, newRole) ==
    { IF u.id # id THEN u ELSE [u EXCEPT !.role = newRole] : u \in table }

\* "DELETE FROM users WHERE id = ?"
DeleteRow(table, id) == {u \in table : u.id # id}

\* userSerializer.serialize(row): type, the id as a string, the four
\* attributes of the serializer; the stored accessToken is not among them.
serialize(row) ==
    [type |-> "user", id |-> ToString(row.id), name |-> row.name,
     email |-> row.email, password |-> row.password, role |-> row.role]

RECURSIVE serializeAll(_)
serializeAll(rows) ==
    IF rows = <<>> THEN <<>>
    ELSE <<serialize(Head(rows))>> \o serializeAll(Tail(rows))

(***************************************************************************)
(* Requests.                                                               *)
(***************************************************************************)
Routes ==
    {"POST /users", "GET /users/:id", "PATCH /users/:id",
     "PATCH /users/:id/role", "GET /users", "DELETE /users/:id"}

\* Variant: DELETE /users/:id goes through userIsSelfOrAdmin, as GET and
\* PATCH of the same path do.
GuardOfDeleteSelf(route) ==
    CASE route = "POST /users" -> "authenticate"
      [] route \in {"GET /users/:id", "PATCH /users/:id", "DELETE /users/:id"}
           -> "userIsSelfOrAdmin"
      [] OTHER -> "userIsAdmin"

\* The guard each route passes its callback to.
GuardOf(route) ==
    CASE route = "POST /users" -> "authenticate"
      [] route \in {"GET /users/:id", "PATCH /users/:id"} -> "userIsSelfOrAdmin"
      [] OTHER -> "userIsAdmin"

HasId(route) == route \notin {"POST /users", "GET /users"}

\* The bodies sent to a route: one the deserializer rejects, and documents
\* with the attributes the route reads ("roleAdmin" carries no password,
\* "createUser" carries the role USER).
BodiesOf(route) ==
    CASE route = "POST /users" ->
           {"malformed", "createUser", "createAdmin", "roleAdmin"}
      [] route = "PATCH /users/:id" -> {"malformed", "roleAdmin"}
      [] route = "PATCH /users/:id/role" ->
           {"malformed", "roleAdmin", "createUser"}
      [] OTHER -> {"none"}

\* The requests a client can send: the two credential headers and the
\* user-role header present or absent, the path id and the body where the
\* route has one.
Requests ==
    { rq \in [route : Routes,
              token : Tokens \cup {NULL},
              email : Emails \cup {NULL},
              userRole : Roles \cup {NULL},
              id : Ids \cup {0},
              body : Bodies \cup {"none"}] :
        /\ (rq.id = 0) <=> ~HasId(rq.route)
        /\ rq.body \in BodiesOf(rq.route) }

VARIABLES
    users,      \* the rows of the users table
    nextId,     \* the next value of the auto-increment column
    reqs,       \* per request slot: the request, where its processing stands
                \* and what has happened to it
    crashed     \* the process has exited on an unhandled rejection

vars == <<users, nextId, reqs, crashed>>

IdleReq ==
    [route |-> NULL, token |-> NULL, email |-> NULL, userRole |-> NULL,
     id |-> 0, body |-> "none",
     pc |-> "idle",          \* the await the request is suspended at
     resp |-> <<>>,          \* the responses sent, in order
     lookups |-> 0,          \* lookups by email issued by the guards
     accepted |-> FALSE,     \* authenticate has called next()
     allowed |-> FALSE,      \* the guard has called the handler's callback
     sql |-> 0,              \* handler statements executed
     reason |-> "none",      \* why authenticate threw
     fault |-> "none",       \* the persistence fault met, and where
     roleAtAuth |-> NULL,    \* the role in the row authenticate's lookup returned
     roleRead |-> NULL,      \* the role userIsAdmin's lookup returned
     insertId |-> 0,         \* result.insertId of the INSERT
     seen |-> {}]            \* the table a request sent twice arrived at

Init ==
    /\ users = InitUsers
    /\ nextId = 3
    /\ reqs = [r \in Reqs |-> IdleReq]
    /\ crashed = FALSE

(***************************************************************************)
(* Responses and failures.                                                 *)
(***************************************************************************)
StatusText(code) ==
    CASE code = 204 -> "No Content"
      [] code = 403 -> "Forbidden"
      [] code = 404 -> "Not Found"
      [] code = 500 -> "Internal Server Error"

\* res.sendStatus(code)
sendStatus(q, code) ==
    [q EXCEPT !.pc = "done",
              !.resp = Append(@, [status |-> code, kind |-> "text",
                                  text |-> StatusText(code), data |-> <<>>])]

\* res.json(payload): kind tells a single resource from a collection, data
\* holds the serialized rows.
json(q, kind, payload) ==
    [q EXCEPT !.pc = "done",
              !.resp = Append(@, [status |-> 200, kind |-> kind,
                                  text |-> "", data |-> payload])]

\* What a query can come to (lines 49-68): the rows, an error of
\* pool.getConnection, an error of connection.query.
QueryOutcomes == {"rows", "poolError", "queryError"}

\* Line 52-55: on an error of getConnection the promise is neither resolved
\* nor rejected, so the code awaiting it never resumes.
NeverSettles(q, where) ==
    [q EXCEPT !.pc = "pending", !.fault = "pool:" \o where]

\* A rejection inside a callback handed to a guard: authenticate calls
\* next() without awaiting it (line 93), so no catch is on the chain.
UnhandledRejection(q, why) == [q EXCEPT !.pc = "unhandled", !.fault = why]

\* A fault of a query awaited inside such a callback.
CallbackFault(q, outcome, where) ==
    IF outcome = "poolError" THEN NeverSettles(q, where)
    ELSE UnhandledRejection(q, "query:" \o where)

\* Variant: the "Forbidden" error of a token mismatch is answered 403.
CatchAroundForbidden(q, why) ==
    sendStatus([q EXCEPT !.reason = why],
               IF why = "TokenMismatch" THEN 403 ELSE 500)

\* Variant: an unknown email is answered 404.
CatchAroundNotFound(q, why) ==
    sendStatus([q EXCEPT !.reason = why],
               IF why = "UnknownPrincipal" THEN 404 ELSE 500)

\* The catch of the guard or handler around authenticate (lines 126-129,
\* 153-156, 184-187): every throw of authenticate ends in sendStatus(500).
CatchAround(q, why) == sendStatus([q EXCEPT !.reason = why], 500)

(***************************************************************************)
(* The callbacks of the six routes, from their first line to their first   *)
(* query.                                                                  *)
(***************************************************************************)
HandlerStart(q) ==
    CASE q.route = "POST /users" ->
           IF DeserializeRejects(q.body)
           THEN UnhandledRejection(q, "deserialize")
           ELSE IF deserialize(q.body).password = NULL
           THEN UnhandledRejection(q, "hash")
           ELSE [q EXCEPT !.pc = "post:171"]
      [] q.route = "GET /users/:id" -> [q EXCEPT !.pc = "get:200"]
      [] q.route = "PATCH /users/:id" ->
           IF DeserializeRejects(q.body)
           THEN UnhandledRejection(q, "deserialize")
           ELSE [q EXCEPT !.pc = "patch:227"]
      [] q.route = "PATCH /users/:id/role" ->
           IF DeserializeRejects(q.body)
           THEN UnhandledRejection(q, "deserialize")
           ELSE [q EXCEPT !.pc = "role:282"]
      [] q.route = "GET /users" -> [q EXCEPT !.pc = "list:304"]
      [] q.route = "DELETE /users/:id" -> [q EXCEPT !.pc = "delete:325"]

\* Variant: only the user-role header is compared.
SelfOrAdminCallbackHeaderOnly(q) ==
    IF q.userRole = "ADMIN"
    THEN HandlerStart([q EXCEPT !.allowed = TRUE])
    ELSE sendStatus(q, 403)

\* Lines 141-152: the callback userIsSelfOrAdmin hands to authenticate.
SelfOrAdminCallback(q) ==
    LET userId == q.id
        userRole == q.userRole
    IN IF userId = q.id \/ userRole = "ADMIN"
       THEN HandlerStart([q EXCEPT !.allowed = TRUE])
       ELSE sendStatus(q, 403)

\* Lines 112-116: the callback userIsAdmin hands to authenticate, up to its
\* query.
AdminCallbackStart(q) ==
    [q EXCEPT !.pc = "userIsAdmin:116", !.lookups = @ + 1]

\* Line 93: next(), the callback the caller of authenticate passed.
AuthenticateNext(q) ==
    LET a == [q EXCEPT !.accepted = TRUE]
    IN CASE GuardOf(q.route) = "authenticate" ->
              HandlerStart([a EXCEPT !.allowed = TRUE])
         [] GuardOf(q.route) = "userIsSelfOrAdmin" -> SelfOrAdminCallback(a)
         [] GuardOf(q.route) = "userIsAdmin" -> AdminCallbackStart(a)

\* Variant: only the access-token header is required.
AuthenticateStartTokenOnly(q) ==
    IF q.token = NULL
    THEN CatchAround(q, "MissingCredentials")
    ELSE IF VerifyThrows(q.token)
    THEN CatchAround(q, "InvalidToken")
    ELSE [q EXCEPT !.pc = "authenticate:88", !.lookups = @ + 1]

\* Variant: the presented token is decoded without checking its signature.
AuthenticateStartDecodeOnly(q) ==
    IF q.token = NULL \/ q.email = NULL
    THEN CatchAround(q, "MissingCredentials")
    ELSE IF q.token = "not-a-jwt"
    THEN CatchAround(q, "InvalidToken")
    ELSE [q EXCEPT !.pc = "authenticate:88", !.lookups = @ + 1]

\* Variant: POST /users runs its callback without authenticate.
AuthenticateStartOpenSignup(q) ==
    IF q.route = "POST /users"
    THEN HandlerStart(q)
    ELSE IF q.token = NULL \/ q.email = NULL
    THEN CatchAround(q, "MissingCredentials")
    ELSE IF VerifyThrows(q.token)
    THEN CatchAround(q, "InvalidToken")
    ELSE [q EXCEPT !.pc = "authenticate:88", !.lookups = @ + 1]

\* Lines 78-88: authenticate up to its query.
AuthenticateStart(q) ==
    IF q.token = NULL \/ q.email = NULL
    THEN CatchAround(q, "MissingCredentials")
    ELSE IF VerifyThrows(q.token)
    THEN CatchAround(q, "InvalidToken")
    ELSE [q EXCEPT !.pc = "authenticate:88", !.lookups = @ + 1]

\* Variant: the TypeError of result[0].accessToken on an empty result is
\* thrown outside the try.
AuthenticateResumeNoRowEscapes(q, outcome, result) ==
    IF outcome = "poolError" THEN NeverSettles(q, "authenticate")
    ELSE IF outcome = "queryError"
    THEN CatchAround([q EXCEPT !.fault = "query:authenticate"], "QueryError")
    ELSE IF Len(result) = 0 THEN UnhandledRejection(q, "TypeError")
    ELSE IF VerifyThrows(result[1].accessToken)
    THEN CatchAround(q, "StoredTokenInvalid")
    ELSE IF StrictEqual(jwtVerify(q.token), jwtVerify(result[1].accessToken))
    THEN AuthenticateNext([q EXCEPT !.roleAtAuth = result[1].role])
    ELSE CatchAround(q, "TokenMismatch")

\* Variant: a rejected query is issued once more.
AuthenticateResumeRetry(q, outcome, result) ==
    IF outcome = "poolError" THEN NeverSettles(q, "authenticate")
    ELSE IF outcome = "queryError" /\ q.lookups < 2
    THEN [q EXCEPT !.lookups = @ + 1]
    ELSE IF outcome = "queryError"
    THEN CatchAround([q EXCEPT !.fault = "query:authenticate"], "QueryError")
    ELSE IF Len(result) = 0 THEN CatchAround(q, "UnknownPrincipal")
    ELSE IF VerifyThrows(result[1].accessToken)
    THEN CatchAround(q, "StoredTokenInvalid")
    ELSE IF StrictEqual(jwtVerify(q.token), jwtVerify(result[1].accessToken))
    THEN AuthenticateNext([q EXCEPT !.roleAtAuth = result[1].role])
    ELSE CatchAround(q, "TokenMismatch")

\* Lines 88-100: authenticate from the result of its query on.
AuthenticateResume(q, outcome, result) ==
    IF outcome = "poolError" THEN NeverSettles(q, "authenticate")
    ELSE IF outcome = "queryError"
    THEN CatchAround([q EXCEPT !.fault = "query:authenticate"], "QueryError")
    ELSE IF Len(result) = 0 THEN CatchAround(q, "UnknownPrincipal")
    ELSE IF VerifyThrows(result[1].accessToken)
    THEN CatchAround(q, "StoredTokenInvalid")
    ELSE IF StrictEqual(jwtVerify(q.token), jwtVerify(result[1].accessToken))
    THEN AuthenticateNext([q EXCEPT !.roleAtAuth = result[1].role])
    ELSE CatchAround(q, "TokenMismatch")

\* Variant: the role is taken from the user-role header.
AdminCallbackResumeHeader(q, outcome, result) ==
    IF outcome # "rows" THEN CallbackFault(q, outcome, "userIsAdmin")
    ELSE LET a == [q EXCEPT !.roleRead = q.userRole]
         IN IF Len(result) > 0 /\ q.userRole = "ADMIN"
            THEN HandlerStart([a EXCEPT !.allowed = TRUE])
            ELSE sendStatus(a, 403)

\* Variant: any row of the caller passes, whatever its role.
AdminCallbackResumeAnyRow(q, outcome, result) ==
    IF outcome # "rows" THEN CallbackFault(q, outcome, "userIsAdmin")
    ELSE LET role == IF Len(result) > 0 THEN result[1].role ELSE "no row"
             a == [q EXCEPT !.roleRead = role]
         IN IF Len(result) > 0
            THEN HandlerStart([a EXCEPT !.allowed = TRUE])
            ELSE sendStatus(a, 403)

\* Variant: after sendStatus(403) the callback goes on to next().
AdminCallbackResumeNoReturn(q, outcome, result) ==
    IF outcome # "rows" THEN CallbackFault(q, outcome, "userIsAdmin")
    ELSE LET role == IF Len(result) > 0 THEN result[1].role ELSE "no row"
             a == [q EXCEPT !.roleRead = role]
         IN IF Len(result) > 0 /\ result[1].role = "ADMIN"
            THEN HandlerStart([a EXCEPT !.allowed = TRUE])
            ELSE HandlerStart([sendStatus(a, 403) EXCEPT !.allowed = TRUE])

\* Lines 116-124: userIsAdmin's callback from the result of its query on.
AdminCallbackResume(q, outcome, result) ==
    IF outcome # "rows" THEN CallbackFault(q, outcome, "userIsAdmin")
    ELSE LET role == IF Len(result) > 0 THEN result[1].role ELSE "no row"
             a == [q EXCEPT !.roleRead = role]
         IN IF Len(result) > 0 /\ result[1].role = "ADMIN"
            THEN HandlerStart([a EXCEPT !.allowed = TRUE])
            ELSE sendStatus(a, 403)

(***************************************************************************)
(* Actions.                                                                *)
(***************************************************************************)
\* A step of request r that leaves it as q: an unhandled rejection ends the
\* process or only logs a warning, as the runtime is configured.
Becomes(r, q) ==
    /\ reqs' = [reqs EXCEPT ![r] = q]
    /\ crashed' \in (IF q.pc = "unhandled" THEN BOOLEAN ELSE {FALSE})

\* Request rq arrives on the first free slot and runs to the first await
\* of authenticate: every route starts with it (lines 164, 112, 141).  The
\* table it arrives at is recorded as seen.
ArriveSeeing(r, rq, table) ==
    /\ ~crashed
    /\ reqs[r].pc = "idle"
    /\ \A s \in Reqs : s < r => reqs[s].pc # "idle"
    /\ Becomes(r, AuthenticateStart(
           [IdleReq EXCEPT !.route = rq.route, !.token = rq.token,
                           !.email = rq.email, !.userRole = rq.userRole,
                           !.id = rq.id, !.body = rq.body,
                           !.seen = table]))
    /\ UNCHANGED <<users, nextId>>

Arrive(r, rq) == ArriveSeeing(r, rq, {})

\* Any request arrives while no other request is in flight.
Receive(r) ==
    /\ \A s \in Reqs : reqs[s].pc = "idle"
    /\ \E rq \in Requests : Arrive(r, rq)

\* Variant: a token an accepted request still in memory has presented is
\* refused, state the guard keeps from one evaluation to the next.
AuthenticateLookupOnce(r) ==
    /\ ~crashed
    /\ reqs[r].pc = "authenticate:88"
    /\ IF \E s \in Reqs \ {r} : reqs[s].accepted /\ reqs[s].token = reqs[r].token
       THEN Becomes(r, CatchAround(reqs[r], "TokenMismatch"))
       ELSE \E outcome \in QueryOutcomes :
              Becomes(r, AuthenticateResume(reqs[r], outcome,
                                            SelectByEmail(users, reqs[r].email)))
    /\ UNCHANGED <<users, nextId>>

\* The lookup of authenticate returns (line 88).
AuthenticateLookup(r) ==
    /\ ~crashed
    /\ reqs[r].pc = "authenticate:88"
    /\ \E outcome \in QueryOutcomes :
         Becomes(r, AuthenticateResume(reqs[r], outcome,
                                       SelectByEmail(users, reqs[r].email)))
    /\ UNCHANGED <<users, nextId>>

\* The lookup of userIsAdmin returns (line 116).
AdminLookup(r) ==
    /\ ~crashed
    /\ reqs[r].pc = "userIsAdmin:116"
    /\ \E outcome \in QueryOutcomes :
         Becomes(r, AdminCallbackResume(reqs[r], outcome,
                                        SelectByEmail(users, reqs[r].email)))
    /\ UNCHANGED <<users, nextId>>

\* Lines 181, 206, 233, 260, 288: serialize result[0] and send it.  With no
\* row result[0] is undefined, and the serializer (a library) either throws
\* on it, which rejects the callback, or yields a document without data.
SerializeAndSend(q, result, library) ==
    IF Len(result) > 0 THEN json(q, "resource", <<serialize(result[1])>>)
    ELSE IF library = "throws" THEN UnhandledRejection(q, "serialize")
    ELSE json(q, "resource", <<>>)

SerializerOnUndefined == {"throws", "null"}

\* POST /users: the INSERT (lines 171-177).
PostInsert(r) ==
    /\ ~crashed
    /\ reqs[r].pc = "post:171"
    /\ LET q == reqs[r]
           user == deserialize(q.body)
       IN \E outcome \in QueryOutcomes :
            IF outcome = "rows"
            THEN /\ nextId <= MaxId
                 /\ users' = InsertRow(users, nextId,
                        [user EXCEPT !.password = bcryptHash(user.password)])
                 /\ nextId' = nextId + 1
                 /\ Becomes(r, [q EXCEPT !.pc = "post:178", !.sql = @ + 1,
                                         !.insertId = nextId])
            ELSE /\ Becomes(r, CallbackFault(q, outcome, "post:171"))
                 /\ UNCHANGED <<users, nextId>>

\* POST /users: the SELECT of the created row and the response
\* (lines 178-182).
PostSelect(r) ==
    /\ ~crashed
    /\ reqs[r].pc = "post:178"
    /\ LET q == reqs[r]
       IN \E outcome \in QueryOutcomes, library \in SerializerOnUndefined :
            IF outcome = "rows"
            THEN Becomes(r, SerializeAndSend([q EXCEPT !.sql = @ + 1],
                              SelectById(users, q.insertId), library))
            ELSE Becomes(r, CallbackFault(q, outcome, "post:178"))
    /\ UNCHANGED <<users, nextId>>

\* GET /users/:id: the SELECT and the response (lines 200-207).
GetSelect(r) ==
    /\ ~crashed
    /\ reqs[r].pc = "get:200"
    /\ LET q == reqs[r]
           result == SelectById(users, q.id)
       IN \E outcome \in QueryOutcomes :
            IF outcome = "rows"
            THEN Becomes(r, IF Len(result) = 0
                            THEN sendStatus([q EXCEPT !.sql = @ + 1], 404)
                            ELSE json([q EXCEPT !.sql = @ + 1], "resource",
                                      <<serialize(result[1])>>))
            ELSE Becomes(r, CallbackFault(q, outcome, "get:200"))
    /\ UNCHANGED <<users, nextId>>

\* PATCH /users/:id: the UPDATE (lines 225-227).
PatchUpdate(r) ==
    /\ ~crashed
    /\ reqs[r].pc = "patch:227"
    /\ LET q == reqs[r]
       IN \E outcome \in QueryOutcomes :
            IF outcome = "rows"
            THEN /\ users' = UpdateRow(users, q.id, deserialize(q.body))
                 /\ Becomes(r, [q EXCEPT !.pc = "patch:230", !.sql = @ + 1])
            ELSE /\ Becomes(r, CallbackFault(q, outcome, "patch:227"))
                 /\ UNCHANGED users
    /\ UNCHANGED nextId

\* PATCH /users/:id: the SELECT of the updated row and the response
\* (lines 230-234).
PatchSelect(r) ==
    /\ ~crashed
    /\ reqs[r].pc = "patch:230"
    /\ LET q == reqs[r]
       IN \E outcome \in QueryOutcomes, library \in SerializerOnUndefined :
            IF outcome = "rows"
            THEN Becomes(r, SerializeAndSend([q EXCEPT !.sql = @ + 1],
                              SelectById(users, q.id), library))
            ELSE Becomes(r, CallbackFault(q, outcome, "patch:230"))
    /\ UNCHANGED <<users, nextId>>

\* PATCH /users/:id/role: the UPDATE of the role (lines 277-282).
RoleUpdate(r) ==
    /\ ~crashed
    /\ reqs[r].pc = "role:282"
    /\ LET q == reqs[r]
           newRole == deserialize(q.body).role
       IN \E outcome \in QueryOutcomes :
            IF outcome = "rows"
            THEN /\ users' = UpdateRole(users, q.id, newRole)
                 /\ Becomes(r, [q EXCEPT !.pc = "role:285", !.sql = @ + 1])
            ELSE /\ Becomes(r, CallbackFault(q, outcome, "role:282"))
                 /\ UNCHANGED users
    /\ UNCHANGED nextId

\* PATCH /users/:id/role: the SELECT of the updated row and the response
\* (lines 285-289).
RoleSelect(r) ==
    /\ ~crashed
    /\ reqs[r].pc = "role:285"
    /\ LET q == reqs[r]
       IN \E outcome \in QueryOutcomes, library \in SerializerOnUndefined :
            IF outcome = "rows"
            THEN Becomes(r, SerializeAndSend([q EXCEPT !.sql = @ + 1],
                              SelectById(users, q.id), library))
            ELSE Becomes(r, CallbackFault(q, outcome, "role:285"))
    /\ UNCHANGED <<users, nextId>>

\* GET /users: the SELECT and the response (lines 304-308).
ListSelect(r) ==
    /\ ~crashed
    /\ reqs[r].pc = "list:304"
    /\ LET q == reqs[r]
       IN \E outcome \in QueryOutcomes :
            IF outcome = "rows"
            THEN Becomes(r, json([q EXCEPT !.sql = @ + 1], "collection",
                                 serializeAll(SelectAll(users))))
            ELSE Becomes(r, CallbackFault(q, outcome, "list:304"))
    /\ UNCHANGED <<users, nextId>>

\* DELETE /users/:id: the DELETE and the response (lines 325-327).
DeleteUser(r) ==
    /\ ~crashed
    /\ reqs[r].pc = "delete:325"
    /\ LET q == reqs[r]
       IN \E outcome \in QueryOutcomes :
            IF outcome = "rows"
            THEN /\ users' = DeleteRow(users, q.id)
                 /\ Becomes(r, sendStatus([q EXCEPT !.sql = @ + 1], 204))
            ELSE /\ Becomes(r, CallbackFault(q, outcome, "delete:325"))
                 /\ UNCHANGED users
    /\ UNCHANGED nextId

\* The exchange is over for the client (answered, or given up on): its slot
\* is free for another request.
Forget(r) ==
    /\ ~crashed
    /\ reqs[r].pc \in {"done", "pending", "unhandled"}
    /\ reqs' = [reqs EXCEPT ![r] = IdleReq]
    /\ UNCHANGED <<users, nextId, crashed>>

\* The steps of request r after its arrival.
Step(r) ==
    \/ AuthenticateLookup(r)
    \/ AdminLookup(r)
    \/ PostInsert(r)
    \/ PostSelect(r)
    \/ GetSelect(r)
    \/ PatchUpdate(r)
    \/ PatchSelect(r)
    \/ RoleUpdate(r)
    \/ RoleSelect(r)
    \/ ListSelect(r)
    \/ DeleteUser(r)
    \/ Forget(r)

\* Requests of every kind, one at a time.
Next == \E r \in Reqs : Receive(r) \/ Step(r)

Spec == Init /\ [][Next]_vars

(***************************************************************************)
(* Requests in flight together.  Between two awaits of one request the     *)
(* statements of the others execute; the requests are those that pass      *)
(* through userIsAdmin and those that change a role or delete an account   *)
(* while another request is being authorized.                              *)
(***************************************************************************)
AsAdmin(route, id, body) ==
    [route |-> route, token |-> "tok.12345", email |-> "admin@x.com",
     userRole |-> NULL, id |-> id, body |-> body]

AsUser(route, userRole, id, body) ==
    [route |-> route, token |-> "tok.67890", email |-> "a@x.com",
     userRole |-> userRole, id |-> id, body |-> body]

ConcurrentRequests ==
    { AsAdmin("DELETE /users/:id", 2, "none"),
      AsAdmin("PATCH /users/:id/role", 1, "createUser"),
      AsUser("GET /users", "ADMIN", 0, "none"),
      AsUser("PATCH /users/:id", NULL, 2, "roleAdmin") }

\* A request arrives while others may be in flight.
ReceiveConcurrent(r) == \E rq \in ConcurrentRequests : Arrive(r, rq)

\* The steps of the routes of ConcurrentRequests.
StepRace(r) ==
    \/ AuthenticateLookup(r)
    \/ AdminLookup(r)
    \/ PatchUpdate(r)
    \/ PatchSelect(r)
    \/ RoleUpdate(r)
    \/ RoleSelect(r)
    \/ ListSelect(r)
    \/ DeleteUser(r)
    \/ Forget(r)

NextRace == \E r \in Reqs : ReceiveConcurrent(r) \/ StepRace(r)

SpecRace == Init /\ [][NextRace]_vars

(***************************************************************************)
(* A request sent twice in a row: the second arrives when the first has    *)
(* ended, and the first is kept to compare what the guards decided.        *)
(***************************************************************************)
RepeatedRequests ==
    { rq \in Requests :
        /\ rq.token \in {"tok.12345", "tok.67890"}
        /\ rq.email \in {"admin@x.com", "a@x.com"}
        /\ rq.userRole \in {"ADMIN", NULL}
        /\ rq.id \in {0, 2}
        /\ rq.body \in {"none", "createUser", "roleAdmin"} }

SentRequest(q) ==
    [route |-> q.route, token |-> q.token, email |-> q.email,
     userRole |-> q.userRole, id |-> q.id, body |-> q.body]

ReceiveFirst(r) ==
    /\ \A s \in Reqs : reqs[s].pc = "idle"
    /\ \E rq \in RepeatedRequests : ArriveSeeing(r, rq, users)

\* The request of the slot before is sent again once it has ended, no
\* other request being in flight.
ReceiveAgain(r) ==
    /\ r > 1
    /\ \A s \in Reqs : reqs[s].pc \in {"idle", "done", "pending", "unhandled"}
    /\ reqs[r - 1].pc # "idle"
    /\ ArriveSeeing(r, SentRequest(reqs[r - 1]), users)

NextRepeat == \E r \in Reqs : ReceiveFirst(r) \/ ReceiveAgain(r) \/ Step(r)

SpecRepeat == Init /\ [][NextRepeat]_vars

(***************************************************************************)
(* Properties.                                                             *)
(***************************************************************************)
\* The request of slot r has been answered once, with this status.
AnsweredOnce(q, code) ==
    q.pc = "done" /\ Len(q.resp) = 1 /\ q.resp[1].status = code

\* The lookup request r awaits at pc returns rows in this step (no fault of
\* the pool or of the query).
LookupReturns(r, pc, where) ==
    /\ reqs[r].pc = pc
    /\ reqs'[r] # reqs[r]
    /\ reqs'[r].fault \notin {"pool:" \o where, "query:" \o where}

\* The account the stored token and the role are read from: result[0] of
\* the lookup by email.
HasAccount(email) == SelectByEmail(users, email) # <<>>
Account(email) == SelectByEmail(users, email)[1]

\* C1: when the lookup of authenticate returns no row for the claimed
\* email, authenticate does not call next(), the failure is caught (no
\* unhandled rejection, the process stays up) and the request is answered
\* with 500.
C1_UnknownEmailAnswered500 ==
    [][\A r \in Reqs :
         (LookupReturns(r, "authenticate:88", "authenticate")
            /\ ~HasAccount(reqs[r].email))
         => /\ AnsweredOnce(reqs'[r], 500)
            /\ ~reqs'[r].accepted /\ ~reqs'[r].allowed
            /\ reqs'[r].sql = 0
            /\ ~crashed']_vars

C1_Witness ==
    \E r \in Reqs :
        /\ reqs[r].reason = "UnknownPrincipal"
        /\ reqs[r].email = "new@x.com"
        /\ ~HasAccount(reqs[r].email)
        /\ AnsweredOnce(reqs[r], 500)

\* C2: a request without the access-token header or without the email
\* header is rejected (500, next() never called) and no lookup is ever
\* issued for it.
C2_MissingHeaderNoLookup ==
    \A r \in Reqs :
        (reqs[r].pc # "idle" /\ (reqs[r].token = NULL \/ reqs[r].email = NULL))
        => /\ reqs[r].lookups = 0
           /\ ~reqs[r].accepted /\ ~reqs[r].allowed
           /\ reqs[r].sql = 0
           /\ AnsweredOnce(reqs[r], 500)

C2_Witness ==
    \E r \in Reqs :
        /\ reqs[r].token = "tok.12345" /\ reqs[r].email = NULL
        /\ reqs[r].route = "GET /users"
        /\ reqs[r].lookups = 0
        /\ AnsweredOnce(reqs[r], 500)

\* C3: when the presented and the stored token both verify, authenticate
\* calls next() only if the two decoded values are equal; if they differ
\* the request is rejected (500) and next() is not called.
C3_DecodedValuesDecide ==
    [][\A r \in Reqs :
         (LookupReturns(r, "authenticate:88", "authenticate")
            /\ HasAccount(reqs[r].email)
            /\ ~VerifyThrows(Account(reqs[r].email).accessToken))
         => LET presented == jwtVerify(reqs[r].token)
                stored == jwtVerify(Account(reqs[r].email).accessToken)
            IN /\ reqs'[r].accepted => presented = stored
               /\ presented # stored
                  => /\ ~reqs'[r].accepted /\ ~reqs'[r].allowed
                     /\ AnsweredOnce(reqs'[r], 500)]_vars

C3_Witness ==
    \E r \in Reqs :
        /\ reqs[r].reason = "TokenMismatch"
        /\ HasAccount(reqs[r].email)
        /\ ~VerifyThrows(Account(reqs[r].email).accessToken)
        /\ jwtVerify(reqs[r].token)
             # jwtVerify(Account(reqs[r].email).accessToken)
        /\ AnsweredOnce(reqs[r], 500)

\* C4: a request whose presented token does not verify (malformed, or
\* signed with another secret) is rejected with 500 and next() is never
\* called, whether or not the claimed email has an account.
C4_InvalidTokenRejected ==
    \A r \in Reqs :
        (reqs[r].pc # "idle" /\ reqs[r].token \in Tokens \ ValidTokens)
        => /\ ~reqs[r].accepted /\ ~reqs[r].allowed
           /\ reqs[r].sql = 0
           /\ AnsweredOnce(reqs[r], 500)

C4_Witness ==
    \E r \in Reqs :
        /\ reqs[r].token = "tok.wrongsig"
        /\ reqs[r].email = "admin@x.com"
        /\ HasAccount("admin@x.com")
        /\ reqs[r].reason = "InvalidToken"
        /\ AnsweredOnce(reqs[r], 500)

\* C5: when the lookup of userIsAdmin returns, for a request authenticate
\* has accepted, the handler's callback is called if and only if the role
\* of the account of the claimed email is ADMIN in the table; otherwise the
\* request is answered 403 and no handler statement runs.  The user-role
\* header takes no part.  On the admin routes the callback is called at no
\* other step.
C5_AdminIffPersistedRole ==
    [][\A r \in Reqs :
         /\ LookupReturns(r, "userIsAdmin:116", "userIsAdmin")
            => LET isAdmin == /\ HasAccount(reqs[r].email)
                              /\ Account(reqs[r].email).role = "ADMIN"
               IN /\ reqs[r].accepted
                  /\ reqs'[r].allowed <=> isAdmin
                  /\ ~isAdmin => /\ AnsweredOnce(reqs'[r], 403)
                                 /\ reqs'[r].sql = 0
         /\ (GuardOf(reqs'[r].route) = "userIsAdmin"
               /\ reqs'[r].allowed /\ ~reqs[r].allowed)
            => reqs[r].pc = "userIsAdmin:116"]_vars

C5_Witness ==
    \E r \in Reqs :
        /\ GuardOf(reqs[r].route) = "userIsAdmin"
        /\ reqs[r].accepted
        /\ reqs[r].userRole = "ADMIN"
        /\ HasAccount(reqs[r].email)
        /\ Account(reqs[r].email).role = "USER"
        /\ ~reqs[r].allowed
        /\ AnsweredOnce(reqs[r], 403)

GuardLookupFaults ==
    {"pool:authenticate", "query:authenticate",
     "pool:userIsAdmin", "query:userIsAdmin"}

\* C7: a request that met a persistence fault in a lookup of a guard has
\* been answered with 500, and the process is up.
C7_GuardFaultAnswered500 ==
    \A r \in Reqs :
        reqs[r].fault \in GuardLookupFaults
        => AnsweredOnce(reqs[r], 500) /\ ~crashed

\* C8: a 403 is sent only to a request that authenticate accepted and whose
\* role check then failed; a request authenticate rejected, for whatever
\* reason, is never answered 403.
C8_ForbiddenOnlyAfterAccept ==
    \A r \in Reqs :
        (\E i \in 1..Len(reqs[r].resp) : reqs[r].resp[i].status = 403)
        => /\ reqs[r].accepted
           /\ reqs[r].reason = "none"
           /\ GuardOf(reqs[r].route) = "userIsAdmin"
           /\ reqs[r].roleRead \notin {NULL, "ADMIN"}
           /\ ~reqs[r].allowed

C8_Witness ==
    \E r \in Reqs :
        /\ reqs[r].route = "DELETE /users/:id"
        /\ reqs[r].accepted
        /\ reqs[r].roleRead = "USER"
        /\ AnsweredOnce(reqs[r], 403)

\* The reasons authenticate rejects a request for.
AuthenticationFailures ==
    {"MissingCredentials", "InvalidToken", "UnknownPrincipal", "TokenMismatch"}

\* What the caller sees of res.sendStatus(500).
InternalFailure ==
    [status |-> 500, kind |-> "text", text |-> "Internal Server Error",
     data |-> <<>>]

\* C9: whatever the reason authenticate rejects a request for, the caller
\* receives one and the same response: status 500 with the fixed status
\* text, so any two such requests are answered identically.
C9_FailuresIndistinguishable ==
    \A r \in Reqs :
        reqs[r].reason \in AuthenticationFailures
        => reqs[r].pc = "done" /\ reqs[r].resp = <<InternalFailure>>

C9_Witness ==
    \E r \in Reqs :
        /\ reqs[r].reason = "MissingCredentials"
        /\ reqs[r].token = NULL
        /\ reqs[r].email = "admin@x.com"
        /\ reqs[r].resp = <<InternalFailure>>

\* C10: on every route a handler statement has run, or a 2xx response has
\* been sent, only for a request that authenticate accepted.
C10_NoHandlerWithoutAuthenticate ==
    \A r \in Reqs :
        (\/ reqs[r].sql > 0
         \/ \E i \in 1..Len(reqs[r].resp) :
              reqs[r].resp[i].status \in 200..299)
        => reqs[r].accepted

C10_Witness ==
    \E r \in Reqs :
        /\ reqs[r].route = "POST /users"
        /\ reqs[r].accepted
        /\ reqs[r].sql = 2
        /\ AnsweredOnce(reqs[r], 200)

\* The endpoints the README marks "Admin only".
AdminOnlyRoutes == {"PATCH /users/:id/role", "GET /users", "DELETE /users/:id"}

\* C11: on the admin-only endpoints a handler statement has run only for a
\* request whose account had the role ADMIN at the lookup of userIsAdmin; a
\* request authenticate accepted and whose account was not ADMIN there is
\* answered 403 without any statement, and no step of it changes the table.
C11_AdminOnlyEndpoints ==
    [][\A r \in Reqs :
         reqs'[r].route \in AdminOnlyRoutes
         => /\ reqs'[r].sql > 0 => reqs'[r].roleRead = "ADMIN"
            /\ (reqs'[r].accepted /\ reqs'[r].roleRead \notin {NULL, "ADMIN"})
               => AnsweredOnce(reqs'[r], 403) /\ reqs'[r].sql = 0
            /\ (reqs'[r] # reqs[r] /\ reqs'[r].roleRead # "ADMIN")
               => users' = users /\ nextId' = nextId]_vars

C11_Witness ==
    \E r \in Reqs :
        /\ reqs[r].route = "PATCH /users/:id/role"
        /\ reqs[r].body = "roleAdmin"
        /\ reqs[r].email = "a@x.com"
        /\ reqs[r].id = 2
        /\ reqs[r].accepted
        /\ reqs[r].roleRead = "USER"
        /\ AnsweredOnce(reqs[r], 403)
        /\ SelectById(users, 2) # <<>>
        /\ SelectById(users, 2)[1].role = "USER"

\* The awaits of the guards: a request not yet arrived runs authenticate to
\* its lookup, then authenticate and userIsAdmin resume from their lookups.
GuardPcs == {"idle", "authenticate:88", "userIsAdmin:116"}

\* A guard has rejected the request: authenticate threw, or 403 was sent.
Rejected(q) ==
    \/ q.reason # "none"
    \/ \E i \in 1..Len(q.resp) : q.resp[i].status = 403

\* C12: every step of a guard leaves the table as it is, and a request a
\* guard has rejected has run no handler statement and changes no row.
C12_GuardsReadOnly ==
    [][\A r \in Reqs :
         /\ (reqs[r].pc \in GuardPcs /\ reqs'[r] # reqs[r])
            => users' = users /\ nextId' = nextId
         /\ Rejected(reqs'[r])
            => /\ reqs'[r].sql = 0
               /\ reqs'[r] # reqs[r] => users' = users /\ nextId' = nextId]_vars

C12_Witness ==
    \E r \in Reqs :
        /\ reqs[r].route = "DELETE /users/:id"
        /\ reqs[r].id = 2
        /\ reqs[r].reason = "TokenMismatch"
        /\ reqs[r].lookups = 1
        /\ reqs[r].sql = 0
        /\ AnsweredOnce(reqs[r], 500)
        /\ SelectById(users, 2) # <<>>

\* The outcome of userIsAdmin as written: one lookup in authenticate, one in
\* its own callback, the decision taken on the second.
TwoLookupOutcome(q) ==
    IF q.allowed THEN "ALLOW"
    ELSE IF \E i \in 1..Len(q.resp) : q.resp[i].status = 403 THEN "403"
    ELSE "none"

\* The outcome of a guard that decides on the row authenticate's lookup read.
SingleLookupOutcome(q) == IF q.roleAtAuth = "ADMIN" THEN "ALLOW" ELSE "403"

\* C13 as stated: once userIsAdmin's lookup has returned, its decision is the
\* one a single-lookup guard takes, whatever other requests ran in between.
C13_CollapsedLookupSameOutcome ==
    \A r \in Reqs :
        reqs[r].roleRead # NULL
        => TwoLookupOutcome(reqs[r]) = SingleLookupOutcome(reqs[r])

\* C13 amended: the two guards decide alike whenever userIsAdmin's lookup
\* returns the role that authenticate's lookup read.
C13_SameOutcomeWhenRoleUnchanged ==
    \A r \in Reqs :
        (reqs[r].roleRead # NULL /\ reqs[r].roleRead = reqs[r].roleAtAuth)
        => TwoLookupOutcome(reqs[r]) = SingleLookupOutcome(reqs[r])

C13_Witness ==
    \E r, o \in Reqs :
        /\ reqs[r].route = "GET /users"
        /\ reqs[r].email = "a@x.com"
        /\ reqs[r].roleAtAuth = "USER"
        /\ reqs[r].roleRead = "USER"
        /\ AnsweredOnce(reqs[r], 403)
        /\ reqs[o].route = "PATCH /users/:id"
        /\ reqs[o].body = "roleAdmin"
        /\ reqs[o].id = 2
        /\ reqs[o].pc = "patch:227"

(***************************************************************************)
(* An account is created and the requests that follow, one at a time, read *)
(* accounts, change them and delete them; the POST is kept to compare what *)
(* it returned with what a later GET returns.                              *)
(***************************************************************************)
CreateRequests ==
    { AsAdmin("POST /users", 0, "createUser"),
      AsAdmin("POST /users", 0, "createAdmin"),
      AsUser("POST /users", NULL, 0, "createUser") }

\* The requests that read, update and delete the account of id i.
FollowUpRequests(i) ==
    { AsAdmin("GET /users/:id", i, "none"),
      AsUser("GET /users/:id", NULL, i, "none"),
      AsAdmin("PATCH /users/:id", i, "roleAdmin"),
      AsAdmin("DELETE /users/:id", i, "none") }

ReceiveCreate(r) ==
    /\ \A s \in Reqs : reqs[s].pc = "idle"
    /\ \E rq \in CreateRequests : Arrive(r, rq)

\* A request for an account created by a request kept follows, none being
\* in flight.
ReceiveFollowUp(r) ==
    /\ r > 1
    /\ \A s \in Reqs : reqs[s].pc \in {"idle", "done", "pending", "unhandled"}
    /\ reqs[r - 1].pc # "idle"
    /\ \E s \in Reqs :
         /\ reqs[s].insertId > 0
         /\ \E rq \in FollowUpRequests(reqs[s].insertId) : Arrive(r, rq)

\* The steps of the routes of CreateRequests and FollowUpRequests.
StepRoundTrip(r) ==
    \/ AuthenticateLookup(r)
    \/ AdminLookup(r)
    \/ PostInsert(r)
    \/ PostSelect(r)
    \/ GetSelect(r)
    \/ PatchUpdate(r)
    \/ PatchSelect(r)
    \/ DeleteUser(r)
    \/ Forget(r)

NextRoundTrip ==
    \E r \in Reqs : ReceiveCreate(r) \/ ReceiveFollowUp(r) \/ StepRoundTrip(r)

SpecRoundTrip == Init /\ [][NextRoundTrip]_vars

\* The guards have decided on the request, their lookups having returned.
GuardDecided(q) ==
    \/ q.allowed
    \/ q.reason \notin {"none", "QueryError"}
    \/ \E i \in 1..Len(q.resp) : q.resp[i].status = 403

GuardOutcome(q) == IF q.allowed THEN "ALLOW" ELSE "REJECT"

AuthenticateLookups(q) ==
    IF q.accepted /\ GuardOf(q.route) = "userIsAdmin"
    THEN q.lookups - 1
    ELSE q.lookups

\* authenticate has ended for the request: it called next() or threw.
AuthenticateEnded(q) == q.accepted \/ q.reason # "none"

\* C15 as stated: every evaluation of authenticate that has ended has issued
\* exactly one lookup.
C15_ExactlyOneLookup ==
    \A r \in Reqs :
        AuthenticateEnded(reqs[r]) => AuthenticateLookups(reqs[r]) = 1

\* C15 amended: authenticate issues at most one lookup, and exactly one when
\* both headers are present and the token verifies; its steps write nothing;
\* a request it threw on is answered 500 once, is not accepted, runs no
\* statement and takes no further step.
C15_SinglePassNoWrite ==
    [][\A r \in Reqs :
         /\ AuthenticateLookups(reqs'[r]) <= 1
         /\ AuthenticateEnded(reqs'[r])
            => (AuthenticateLookups(reqs'[r]) = 1
                <=> /\ reqs'[r].token # NULL
                    /\ reqs'[r].email # NULL
                    /\ ~VerifyThrows(reqs'[r].token))
         /\ (reqs[r].pc \in {"idle", "authenticate:88"} /\ reqs'[r] # reqs[r])
            => users' = users /\ nextId' = nextId
         /\ reqs'[r].reason # "none"
            => /\ AnsweredOnce(reqs'[r], 500)
               /\ reqs'[r].pc = "done"
               /\ ~reqs'[r].accepted
               /\ reqs'[r].sql = 0
         /\ (reqs[r].reason # "none" /\ reqs'[r] # reqs[r])
            => reqs'[r] = IdleReq]_vars

C15_Witness ==
    \E r \in Reqs :
        /\ reqs[r].route = "GET /users/:id"
        /\ reqs[r].token = "tok.12345"
        /\ reqs[r].email = "a@x.com"
        /\ reqs[r].reason = "TokenMismatch"
        /\ AuthenticateLookups(reqs[r]) = 1
        /\ AnsweredOnce(reqs[r], 500)
        /\ reqs[r].pc = "done"

\* POST /users answered request p with the created account.
Created(p) ==
    /\ p.route = "POST /users"
    /\ AnsweredOnce(p, 200)
    /\ p.resp[1].data # <<>>

\* The row of the account p created is as the POST returned it: no update
\* or delete has changed it.
RowAsReturned(p) ==
    /\ SelectById(users, p.insertId) # <<>>
    /\ <<serialize(SelectById(users, p.insertId)[1])>> = p.resp[1].data

\* C16: a GET /users/i that is answered while the row of i is as a POST
\* returned it is answered 200 with that document, whose id is i and whose
\* name, email and role are the ones submitted; a GET of an id without a
\* row is answered 404; and a row changes only by an UPDATE or DELETE of a
\* request for its id.
C16_CreateGetRoundTrip ==
    [][/\ \A s \in Reqs :
            (reqs[s].pc = "get:200" /\ reqs'[s].pc = "done")
            => /\ SelectById(users, reqs[s].id) = <<>>
                  => AnsweredOnce(reqs'[s], 404)
               /\ \A r \in Reqs :
                    ( /\ Created(reqs[r])
                      /\ reqs[r].insertId = reqs[s].id
                      /\ RowAsReturned(reqs[r]) )
                    => /\ AnsweredOnce(reqs'[s], 200)
                       /\ reqs'[s].resp[1].data = reqs[r].resp[1].data
                       /\ LET got == reqs'[s].resp[1].data[1]
                              sent == deserialize(reqs[r].body)
                          IN /\ got.id = ToString(reqs[r].insertId)
                             /\ got.name = sent.name
                             /\ got.email = sent.email
                             /\ got.role = sent.role
       /\ \A i \in Ids :
            ( /\ SelectById(users, i) # <<>>
              /\ SelectById(users', i) # SelectById(users, i) )
            => \E r \in Reqs :
                 /\ reqs[r].id = i
                 /\ reqs[r].pc \in {"patch:227", "role:282", "delete:325"}
                 /\ reqs'[r].sql = reqs[r].sql + 1]_vars

C16_Witness ==
    \E r, s \in Reqs :
        /\ Created(reqs[r])
        /\ reqs[r].body = "createAdmin"
        /\ reqs[s].route = "GET /users/:id"
        /\ reqs[s].id = reqs[r].insertId
        /\ AnsweredOnce(reqs[s], 200)
        /\ reqs[s].resp[1].data = reqs[r].resp[1].data
        /\ reqs[s].resp[1].data[1].role = "ADMIN"
        /\ reqs[s].resp[1].data[1].email = "new@x.com"

\* C17: in every step by which an account has the role ADMIN that it did not
\* have before (a new row, or a row whose role changes), the statement is
\* one of a request whose caller had the persisted role ADMIN when it was
\* authenticated.
C17_NoPrivilegeEscalation ==
    [][\A u \in users' :
         ( /\ u.role = "ADMIN"
           /\ ~\E v \in users : v.id = u.id /\ v.role = "ADMIN" )
         => \E r \in Reqs :
              /\ reqs'[r].sql = reqs[r].sql + 1
              /\ reqs[r].roleAtAuth = "ADMIN"]_vars

\* The request takes no further step: it was answered, or it waits on a
\* promise that never settles, or its callback was rejected with no catch
\* on the chain.
Ended(q) == q.pc \in {"done", "pending", "unhandled"}

\* C18: no request is answered twice, a request that takes no further step
\* has been answered, and a request the guard allowed whose handler met a
\* failure (deserialization, hashing, a statement) is answered 500.
C18_ExactlyOneResponse ==
    \A r \in Reqs :
        /\ Len(reqs[r].resp) <= 1
        /\ Ended(reqs[r]) => Len(reqs[r].resp) = 1
        /\ (reqs[r].allowed /\ reqs[r].fault # "none")
           => AnsweredOnce(reqs[r], 500)

\* C19: when the lookup of authenticate returns for a request that carries
\* both headers and a token that verifies, and the account of the claimed
\* email stores the very token string presented, authenticate calls next(),
\* be the payload of the token a string or an object.
C19_IdenticalTokenAccepted ==
    [][\A r \in Reqs :
         ( /\ reqs[r].pc = "authenticate:88"
           /\ reqs'[r].pc # "authenticate:88"
           /\ reqs'[r].fault \notin {"pool:authenticate", "query:authenticate"}
           /\ HasAccount(reqs[r].email)
           /\ Account(reqs[r].email).accessToken = reqs[r].token )
         => reqs'[r].accepted]_vars

====
